---- MODULE Spec2Model ----
(***************************************************************************)
(* Bouncing particles inside a rotating boundary: the Canvas component     *)
(* (src/utils/math.ts, lines 185-395), the vector helpers and shape        *)
(* generator it uses (lines 9-177), and the parent state of App.tsx and    *)
(* SimulationCard that supplies its props.                                 *)
(*                                                                         *)
(* NUMBERS.  The source computes in IEEE doubles.  Here a number is an     *)
(* integer holding the value times Scale (three decimal digits), with      *)
(* three special values: Inf, -Inf and NaN.  A finite result whose         *)
(* magnitude exceeds MaxFinite overflows to +-Inf, as a double does beyond *)
(* Number.MAX_VALUE; Inf - Inf, Inf * 0, 0 / 0 and Inf / Inf are NaN; every *)
(* comparison with NaN is false.  Finite results are truncated to the      *)
(* resolution 1 / Scale.  Signed zero is not modelled (x / 0 takes the     *)
(* sign of x).                                                             *)
(***************************************************************************)
EXTENDS Integers, Sequences, FiniteSets, TLC

\* ---------------------------------------------------------------- numbers
Scale == 10 ^ 3
MaxFinite == 500000000
Inf == MaxFinite + 1
NaN == MaxFinite + 2

IsNaN(a) == a = NaN
IsFinite(a) == a >= -MaxFinite /\ a <= MaxFinite
Abs(n) == IF n < 0 THEN -n ELSE n
Sign(n) == IF n < 0 THEN -1 ELSE IF n > 0 THEN 1 ELSE 0

\* an exact integer result as a number: overflow to +-Inf
Round(n) == IF n > MaxFinite THEN Inf ELSE IF n < -MaxFinite THEN -Inf ELSE n

FNeg(a) == IF IsNaN(a) THEN NaN ELSE -a

FAdd(a, b) ==
    IF IsNaN(a) \/ IsNaN(b) THEN NaN
    ELSE IF ~IsFinite(a) THEN (IF ~IsFinite(b) /\ b # a THEN NaN ELSE a)
    ELSE IF ~IsFinite(b) THEN b
    ELSE Round(a + b)

FSub(a, b) == FAdd(a, FNeg(b))

\* |a| * |b| / Scale for finite a, b, by long multiplication so that no
\* intermediate leaves the 32-bit range; -1 when the product overflows
MulMag(a, b) ==
    LET a1 == a \div Scale
        a0 == a % Scale
        b1 == b \div Scale
        b0 == b % Scale
    IN  IF a1 > 0 /\ b1 > (MaxFinite \div Scale) \div a1 THEN -1
        ELSE LET r == a1 * b1 * Scale + a1 * b0 + a0 * b1 + (a0 * b0) \div Scale
             IN  IF r > MaxFinite THEN -1 ELSE r

\* the magnitude m (an overflow when it is negative or beyond MaxFinite)
\* with the sign s
Signed(s, m) == IF m < 0 \/ m > MaxFinite THEN s * Inf ELSE s * m

FMul(a, b) ==
    IF IsNaN(a) \/ IsNaN(b) THEN NaN
    ELSE IF ~IsFinite(a) \/ ~IsFinite(b)
         THEN (IF a = 0 \/ b = 0 THEN NaN ELSE Sign(a) * Sign(b) * Inf)
    ELSE Signed(Sign(a) * Sign(b), MulMag(Abs(a), Abs(b)))

\* three further decimal digits of rem / b, by long division
RECURSIVE Digits(_, _, _, _)
Digits(rem, b, n, acc) ==
    IF n = 0 THEN acc
    ELSE Digits((rem * 10) % b, b, n - 1, acc * 10 + (rem * 10) \div b)

\* |a| / |b| * Scale for finite a and finite b > 0; -1 on overflow.  A
\* divisor too large for the long division's 32-bit range is first cut to
\* one digit less, and the dividend with it.
DivMag(a, b) ==
    LET big == b > MaxFinite \div 10
        aa == IF big THEN a \div 10 ELSE a
        bb == IF big THEN b \div 10 ELSE b
        q == aa \div bb
    IN  IF q > MaxFinite \div Scale THEN -1
        ELSE Digits(aa % bb, bb, 3, q)

FDiv(a, b) ==
    IF IsNaN(a) \/ IsNaN(b) THEN NaN
    ELSE IF ~IsFinite(a) THEN (IF ~IsFinite(b) THEN NaN
                               ELSE Sign(a) * (IF b < 0 THEN -1 ELSE 1) * Inf)
    ELSE IF ~IsFinite(b) THEN 0
    ELSE IF b = 0 THEN (IF a = 0 THEN NaN ELSE Sign(a) * Inf)
    ELSE Signed(Sign(a) * Sign(b), DivMag(Abs(a), Abs(b)))

\* const x = v; F(x): v is computed once, before F uses it
Bind(v, F(_)) == CHOOSE r \in {F(x) : x \in {v}} : TRUE

\* a first guess that is at least the square root of a * Scale, and at most
\* about twice it: 64 * 2^k where 4^k <= a < 4^(k+1)
SqrtGuess(a) == 64 * 2 ^ (CHOOSE k \in 0..14 : 4 ^ k <= a /\ a < 4 ^ (k + 1))

\* one step of Newton's iteration on integers, downwards towards the largest
\* r with r * r <= a * Scale; FDiv(a, x) is a * Scale / x by long division
Lower(x, y) == IF y < x THEN y ELSE x
SqrtStep(a, x) == Lower(x, (x + FDiv(a, x)) \div 2)

\* Math.sqrt: from SqrtGuess the iteration has converged after six steps
FSqrt(a) ==
    IF IsNaN(a) \/ a < 0 THEN NaN
    ELSE IF a = Inf THEN Inf
    ELSE IF a = 0 THEN 0
    ELSE SqrtStep(a, SqrtStep(a, SqrtStep(a,
           SqrtStep(a, SqrtStep(a, SqrtStep(a, SqrtGuess(a)))))))

\* the comparisons <, > and === of the source: false when an operand is NaN
FLt(a, b) == ~IsNaN(a) /\ ~IsNaN(b) /\ a < b
FGt(a, b) == ~IsNaN(a) /\ ~IsNaN(b) /\ a > b
FEq(a, b) == ~IsNaN(a) /\ ~IsNaN(b) /\ a = b

\* Math.min and Math.max: NaN when an operand is NaN
FMin(a, b) == IF IsNaN(a) \/ IsNaN(b) THEN NaN ELSE IF a < b THEN a ELSE b
FMax(a, b) == IF IsNaN(a) \/ IsNaN(b) THEN NaN ELSE IF a > b THEN a ELSE b

\* Math.floor, to a whole number of units
FFloor(a) == IF ~IsFinite(a) THEN a ELSE (a \div Scale) * Scale

\* x || d: d when x is falsy (0 or NaN)
OrElse(x, d) == IF x = 0 \/ IsNaN(x) THEN d ELSE x

\* Math.PI, and Math.cos / Math.sin to the model's resolution: the angle
\* (in 1 / Scale radians) is reduced to one turn and the half turn is
\* evaluated by Bhaskara's rational approximation, which is exact at the
\* multiples of a quarter turn.  A non-finite angle gives NaN.
PI == 3142
HalfSin(x) == LET p == x * (PI - x) IN FDiv(4 * p, (5 * PI * PI) \div 4 - p)
Turn(m) == (IF m <= PI THEN 1 ELSE -1) * HalfSin(m % PI)
Sin(a) == IF ~IsFinite(a) THEN NaN ELSE Turn(a % (2 * PI))
Cos(a) == IF ~IsFinite(a) THEN NaN ELSE Sin(a + PI \div 2)

\* a whole number n as a number of the model
Num(n) == n * Scale

\* ---------------------------------------------------------------- vectors
Vec(x, y) == [x |-> x, y |-> y]
add(v1, v2) == Vec(FAdd(v1.x, v2.x), FAdd(v1.y, v2.y))
sub(v1, v2) == Vec(FSub(v1.x, v2.x), FSub(v1.y, v2.y))
mult(v, s) == Vec(FMul(v.x, s), FMul(v.y, s))
dot(v1, v2) == FAdd(FMul(v1.x, v2.x), FMul(v1.y, v2.y))
mag(v) == FSqrt(FAdd(FMul(v.x, v.x), FMul(v.y, v.y)))
Over(v, m) == IF FEq(m, 0) THEN Vec(0, 0) ELSE Vec(FDiv(v.x, m), FDiv(v.y, m))
normalize(v) == Over(v, mag(v))

\* the point at (dx, dy) from center, turned by the angle of cos and sin
Turned(center, dx, dy, cos, sin) ==
    Vec(FAdd(center.x, FSub(FMul(dx, cos), FMul(dy, sin))),
        FAdd(center.y, FAdd(FMul(dx, sin), FMul(dy, cos))))

rotatePoint(point, center, angle) ==
    Turned(center, FSub(point.x, center.x), FSub(point.y, center.y),
           Cos(angle), Sin(angle))

\* the point at the distance radius from center in the direction angle
Polar(center, radius, angle) ==
    Vec(FAdd(center.x, FMul(radius, Cos(angle))),
        FAdd(center.y, FMul(radius, Sin(angle))))

\* the loop of generatePolygon from index i on: it runs while i < sides
RECURSIVE PolygonFrom(_, _, _, _, _)
PolygonFrom(i, sides, radius, center, rotation) ==
    IF ~FLt(Num(i), sides) THEN <<>>
    ELSE <<Polar(center, radius,
                 FAdd(FDiv(FMul(FMul(Num(i), Num(2)), PI), sides), rotation))>>
         \o PolygonFrom(i + 1, sides, radius, center, rotation)

generatePolygon(sides, radius, center, rotation) ==
    PolygonFrom(0, sides, radius, center, rotation)

\* the loop of generateStar from index i on: it runs while i < points * 2
RECURSIVE StarFrom(_, _, _, _, _, _)
StarFrom(i, points, outerRadius, innerRadius, center, rotation) ==
    IF ~FLt(Num(i), FMul(points, Num(2))) THEN <<>>
    ELSE <<Polar(center, IF i % 2 = 0 THEN outerRadius ELSE innerRadius,
                 FAdd(FDiv(FMul(Num(i), PI), points), rotation))>>
         \o StarFrom(i + 1, points, outerRadius, innerRadius, center, rotation)

\* the outer points alone: one vertex per point of the star
generateStarOuterOnly(points, outerRadius, innerRadius, center, rotation) ==
    generatePolygon(points, outerRadius, center, rotation)

generateStar(points, outerRadius, innerRadius, center, rotation) ==
    StarFrom(0, points, outerRadius, innerRadius, center, rotation)

\* Distance from point p to line segment ab
SegmentResult(ab, closest, distVec, distance) ==
    [dist |-> distance,
     normal |-> IF FEq(distance, 0)
                THEN normalize(Vec(FNeg(ab.y), ab.x))
                ELSE normalize(distVec),
     closest |-> closest]

distPointToSegment(p, a, b) ==
    Bind(sub(b, a), LAMBDA ab :
      LET ap == sub(p, a)
          proj == dot(ap, ab)
          abLenSq == dot(ab, ab)
          d == FMax(0, FMin(Num(1), FDiv(proj, abLenSq)))
      IN  Bind(add(a, mult(ab, d)), LAMBDA closest :
            Bind(sub(p, closest), LAMBDA distVec :
              SegmentResult(ab, closest, distVec, mag(distVec)))))

\* the hand-authored silhouettes of generateShape, in thousandths
BasicPolygons == {"triangle", "square", "pentagon", "hexagon", "octagon"}
normalizedPoints(type) ==
    CASE type = "house" ->
           <<Vec(0, -1000), Vec(800, -400), Vec(800, 1000), Vec(-800, 1000),
             Vec(-800, -400)>>
      [] type = "skull" ->
           <<Vec(0, -1000), Vec(700, -700), Vec(900, 0), Vec(500, 500),
             Vec(300, 1000), Vec(-300, 1000), Vec(-500, 500), Vec(-900, 0),
             Vec(-700, -700)>>
      [] type = "candy_cane" ->
           <<Vec(-500, -1000), Vec(500, -1000), Vec(500, 1000), Vec(-200, 1000),
             Vec(-200, -400), Vec(-500, -400)>>
      [] type = "tree" ->
           <<Vec(0, -1000), Vec(400, -400), Vec(200, -400), Vec(600, 200),
             Vec(300, 200), Vec(700, 1000), Vec(-700, 1000), Vec(-300, 200),
             Vec(-600, 200), Vec(-200, -400), Vec(-400, -400)>>
      [] type = "ghost" ->
           <<Vec(0, -1000), Vec(800, -500), Vec(800, 1000), Vec(400, 800),
             Vec(0, 1000), Vec(-400, 800), Vec(-800, 1000), Vec(-800, -500)>>
      [] type = "pumpkin" ->
           <<Vec(0, -900), Vec(100, -1100), Vec(-100, -1100), Vec(0, -900),
             Vec(-600, -800), Vec(-900, -300), Vec(-950, 300), Vec(-500, 900),
             Vec(500, 900), Vec(950, 300), Vec(900, -300), Vec(600, -800)>>
      [] OTHER -> <<>>
CustomShapes == {"house", "skull", "candy_cane", "tree", "ghost", "pumpkin"}

generateShape(type, vertexCount, radius, center, rotation) ==
    IF type \in BasicPolygons
    THEN generatePolygon(OrElse(vertexCount, Num(4)), radius, center, rotation)
    ELSE IF type = "star"
    THEN generateStar(OrElse(vertexCount, Num(5)), radius, FMul(radius, 450),
                      center, rotation)
    ELSE IF type \in CustomShapes
    THEN LET pts == normalizedPoints(type)
         IN  [k \in 1..Len(pts) |->
                 rotatePoint(mult(pts[k], radius), center, rotation)]
    ELSE generatePolygon(Num(4), radius, center, rotation)

\* ------------------------------------------------------- Canvas: physics
Origin == Vec(0, 0)
DefaultRotationSpeed == 5
DefaultFriction == 1
NudgeSpeed == 100
SafetyMargin == Num(200)
InitialSpread == Num(30)
PaletteSize == 5

\* const shapeRadius = Math.min(width, height) * 0.45
ShapeRadius(size) == FMul(FMin(size.w, size.h), 450)

\* state.rotation += (config.rotationSpeed || 0.005) * rotationMultiplier * timeScale
AdvanceRotation(rotation, config, gs) ==
    FAdd(rotation,
         FMul(FMul(OrElse(config.rotationSpeed, DefaultRotationSpeed),
                   gs.rotationMultiplier),
              gs.timeScale))

\* the factor of the friction step: 1 - (config.friction || 0.001) * timeScale
FrictionFactor(config, gs) ==
    FSub(Num(1), FMul(OrElse(config.friction, DefaultFriction), gs.timeScale))

\* Gravity and Friction, then the move
Moved(ball, vel, timeScale) ==
    [ball EXCEPT !.vel = vel, !.pos = add(ball.pos, mult(vel, timeScale))]

Integrate(ball, config, gs) ==
    Moved(ball,
          mult(Vec(ball.vel.x,
                   FAdd(ball.vel.y,
                        FMul(FMul(config.gravity, gs.gravityMultiplier),
                             gs.timeScale))),
               FrictionFactor(config, gs)),
          gs.timeScale)

\* the reflection whatever the direction of the velocity
ReflectAlways(ball, normal, velDotNormal, restitution) ==
    [ball EXCEPT !.vel = add(mult(sub(ball.vel,
                                      mult(normal, FMul(Num(2), velDotNormal))),
                                  restitution),
                             mult(normal, NudgeSpeed))]

\* the reflection without the nudge along the normal
ReflectNoNudge(ball, normal, velDotNormal, restitution) ==
    IF FLt(velDotNormal, 0)
    THEN [ball EXCEPT !.vel = mult(sub(ball.vel,
                                       mult(normal, FMul(Num(2), velDotNormal))),
                                   restitution)]
    ELSE ball

\* the body of if (dist < ball.radius) for one edge
\* Reflect velocity, only if moving towards the wall
Reflect(ball, normal, velDotNormal, restitution) ==
    IF FLt(velDotNormal, 0)
    THEN LET reflect == mult(normal, FMul(Num(2), velDotNormal))
             v1 == sub(ball.vel, mult(reflect, Num(1)))
             v2 == mult(v1, restitution)
         IN  [ball EXCEPT !.vel = add(v2, mult(normal, NudgeSpeed))]
    ELSE ball

WallResponse(ball, dist, normal, restitution) ==
    LET penetration == FSub(ball.radius, dist)
    IN  Reflect([ball EXCEPT !.pos = add(ball.pos, mult(normal, penetration))],
                normal, dot(ball.vel, normal), restitution)

\* one edge p1-p2 of the wall loop against one ball
WallCollide(ball, p1, p2, restitution) ==
    Bind(distPointToSegment(ball.pos, p1, p2), LAMBDA hit :
      IF FLt(hit.dist, ball.radius)
      THEN WallResponse(ball, hit.dist, hit.normal, restitution)
      ELSE ball)

\* for (let i = 0; i < localVertices.length; i++), from edge i on (1-based)
RECURSIVE WallLoop(_, _, _, _)
WallLoop(ball, vertices, i, restitution) ==
    IF i > Len(vertices) THEN ball
    ELSE Bind(WallCollide(ball, vertices[i],
                          vertices[(i % Len(vertices)) + 1], restitution),
              LAMBDA next : WallLoop(next, vertices, i + 1, restitution))

\* the body of state.balls.forEach for one ball
MoveBall(ball, vertices, config, gs) ==
    Bind(Integrate(ball, config, gs), LAMBDA moved :
      WallLoop(moved, vertices, 1,
               FMul(config.restitution, gs.bouncinessMultiplier)))

\* the positions corrected and the velocities left as they were
PairExchangeNone(balls, i, j, posA, posB, v1n_vec, v2n_vec) ==
    [balls EXCEPT ![i] = [@ EXCEPT !.pos = posA],
                  ![j] = [@ EXCEPT !.pos = posB]]

\* the pair (i, j) of the Ball-to-Ball Collision loop
\* if (speedAlongNormal < 0): the balls exchange the components of their
\* velocities along the normal
PairExchange(balls, i, j, posA, posB, v1n_vec, v2n_vec) ==
    [balls EXCEPT
       ![i] = [@ EXCEPT !.pos = posA,
                        !.vel = add(sub(balls[i].vel, v1n_vec), v2n_vec)],
       ![j] = [@ EXCEPT !.pos = posB,
                        !.vel = add(sub(balls[j].vel, v2n_vec), v1n_vec)]]

PairBounce(balls, i, j, posA, posB, collisionNormal, speedAlongNormal) ==
    IF FLt(speedAlongNormal, 0)
    THEN PairExchange(balls, i, j, posA, posB,
                      mult(collisionNormal, dot(balls[i].vel, collisionNormal)),
                      mult(collisionNormal, dot(balls[j].vel, collisionNormal)))
    ELSE [balls EXCEPT ![i] = [@ EXCEPT !.pos = posA],
                       ![j] = [@ EXCEPT !.pos = posB]]

\* each ball corrected by the whole overlap instead of half of it
PairResolveWholeOverlap(balls, i, j, overlap, correctionNormal) ==
    PairBounce(balls, i, j,
               add(balls[i].pos, mult(correctionNormal, FNeg(overlap))),
               add(balls[j].pos, mult(correctionNormal, overlap)),
               correctionNormal,
               dot(sub(balls[j].vel, balls[i].vel), correctionNormal))

\* the body of if (distance < totalRadius)
PairResolve(balls, i, j, overlap, correctionNormal) ==
    PairBounce(balls, i, j,
               add(balls[i].pos,
                   mult(correctionNormal, FDiv(FNeg(overlap), Num(2)))),
               add(balls[j].pos,
                   mult(correctionNormal, FDiv(overlap, Num(2)))),
               correctionNormal,
               dot(sub(balls[j].vel, balls[i].vel), correctionNormal))

PairAt(balls, i, j, distVec, distance, totalRadius) ==
    IF FLt(distance, totalRadius)
    THEN PairResolve(balls, i, j, FSub(totalRadius, distance),
                     IF FEq(distance, 0) THEN Vec(Num(1), 0)
                     ELSE normalize(distVec))
    ELSE balls

PairCollide(balls, i, j) ==
    Bind(sub(balls[j].pos, balls[i].pos), LAMBDA distVec :
      PairAt(balls, i, j, distVec, mag(distVec),
             FAdd(balls[i].radius, balls[j].radius)))

\* the two nested loops over i < j, from the pair (i, j) on (1-based)
RECURSIVE PairLoop(_, _, _)
PairLoop(balls, i, j) ==
    IF i > Len(balls) THEN balls
    ELSE IF j > Len(balls) THEN PairLoop(balls, i + 1, i + 2)
    ELSE Bind(PairCollide(balls, i, j), LAMBDA next : PairLoop(next, i, j + 1))

\* Safety bounds reset
SafetyReset(ball, shapeRadius) ==
    IF FGt(mag(ball.pos), FAdd(shapeRadius, SafetyMargin))
    THEN [ball EXCEPT !.pos = Origin, !.vel = Origin]
    ELSE ball

\* the boundary loop of a tick that starts with this rotation accumulator
LocalVertices(rotation, config, gs, size) ==
    Bind(AdvanceRotation(rotation, config, gs), LAMBDA turned :
      generateShape(config.shapeType, config.vertexCount, ShapeRadius(size),
                    Origin, turned))

\* the ball list after the forEach of integration and wall collisions
AfterWalls(state, config, gs, size) ==
    Bind(LocalVertices(state.rotation, config, gs, size), LAMBDA localVertices :
      [k \in 1..Len(state.balls) |->
          MoveBall(state.balls[k], localVertices, config, gs)])

\* the ball list after the ball-to-ball loops as well
AfterPairs(state, config, gs, size) ==
    Bind(AfterWalls(state, config, gs, size), LAMBDA moved :
      PairLoop(moved, 1, 2))

updatePhysics(state, config, gs, size) ==
    Bind(AfterPairs(state, config, gs, size), LAMBDA moved :
      [balls |-> [k \in 1..Len(moved) |->
                     SafetyReset(moved[k], ShapeRadius(size))],
       rotation |-> AdvanceRotation(state.rotation, config, gs)])

\* ------------------------------------------- Canvas: initialize effect
\* Math.random() is a draw from one of a few fixed streams of values in
\* [0, 1): draw k of stream seed
Seeds == 1..2
Random(seed, k) == (seed * 389 + k * 617) % Scale

\* the count rounded up instead of down
BallCountRoundedUp(config) == FFloor(FAdd(config.ballCount, Scale - 1))

\* const count = Math.floor(config.ballCount * 1)
BallCount(config) == FFloor(FMul(config.ballCount, Num(1)))

\* the body of the for loop: ball i (0-based) of the new list
NewBall(config, seed, i) ==
    LET angle == FMul(FMul(Random(seed, 4 * i), PI), Num(2))
        dist == FMul(Random(seed, 4 * i + 1), InitialSpread)
        speed == FMul(config.initialSpeed, FAdd(500, Random(seed, 4 * i + 2)))
        velAngle == FMul(FMul(Random(seed, 4 * i + 3), PI), Num(2))
    IN  [id |-> <<config.id, i>>,
         pos |-> Vec(FAdd(0, FMul(Cos(angle), dist)),
                     FAdd(0, FMul(Sin(angle), dist))),
         vel |-> Vec(FMul(Cos(velAngle), speed), FMul(Sin(velAngle), speed)),
         radius |-> config.ballSize,
         color |-> i % PaletteSize]

\* for (let i = 0; i < count; i++) balls.push(...)
NewBalls(config, seed) ==
    LET count == BallCount(config)
    IN  IF FGt(count, 0)
        THEN [k \in 1..(count \div Scale) |-> NewBall(config, seed, k - 1)]
        ELSE <<>>

\* the value useRef gives stateRef, and the one the initialize effect stores
EmptyState == [balls |-> <<>>, rotation |-> 0]
InitialState(config, seed) == [balls |-> NewBalls(config, seed), rotation |-> 0]

\* the initialize effect with every field of the config as a dependency
InitDepsWholeConfig(config) == <<config>>

\* the dependency list of the initialize effect
InitDeps(config) ==
    <<config.id, config.ballCount, config.initialSpeed, config.ballSize>>

\* ------------------------------------------------ App, card and Canvas
\* The model follows one SimulationCard of the App and the Canvas instances
\* it mounts one after the other (key = resetKey).  Bounds of the runs:
MaxInstances == 2
MaxSteps == 2
MaxEvents == 1

Instances == 1..MaxInstances

\* the presets the card may show, and the values the inputs may take
Preset ==
    [id |-> 1, shapeType |-> "square", vertexCount |-> Num(4),
     gravity |-> 300, friction |-> 1, restitution |-> 800,
     rotationSpeed |-> 5, ballCount |-> Num(2), ballSize |-> Num(10),
     initialSpeed |-> Num(3)]
ConfigInputs ==
    [id : {2}] \cup [shapeType : {"triangle"}] \cup [gravity : {0}]
    \cup [friction : {500}] \cup [restitution : {Num(1)}]
    \cup [rotationSpeed : {10}] \cup [ballCount : {1500, -Num(1)}]
    \cup [ballSize : {Num(5), 0}] \cup [initialSpeed : {Num(5)}]
SettingInputs ==
    [gravityMultiplier : {Num(3)}] \cup [timeScale : {Num(3)}]
    \cup [rotationMultiplier : {Num(5)}]
Sizes == {[w |-> Num(200), h |-> Num(200)], [w |-> 0, h |-> 0]}

\* r with the fields of the one-field record u replaced by u's
Patch(r, u) == [f \in DOMAIN r |-> IF f \in DOMAIN u THEN u[f] ELSE r[f]]

VARIABLES
    globalSettings,  \* App: the GlobalSettings state
    isPlaying,       \* App: the isPlaying state
    preset,          \* App: the preset the card shows
    resetKey,        \* SimulationCard: the resetKey state
    clientSize,      \* the layout size of the card's canvas element
    canvasRef,       \* per Canvas instance: canvasRef.current is an element
    requestRef,      \* per Canvas instance: requestRef.current (0 for null)
    stateRef,        \* per Canvas instance: stateRef.current
    rendered,        \* per Canvas instance: the props of its committed render
    passive,         \* the passive effects committed and not yet run
    frames,          \* the pending requestAnimationFrame callbacks
    handle,          \* the last handle requestAnimationFrame returned
    steps,           \* history: the number of simulation steps run
    lastStep,        \* history: what the last simulation step read
    events           \* history: the number of inputs so far

vars ==
    <<globalSettings, isPlaying, preset, resetKey, clientSize, canvasRef,
      requestRef, stateRef, rendered, passive, frames, handle, steps,
      lastStep, events>>

\* const effectiveSettings = {...globalSettings, timeScale: isPlaying ? ... : 0}
effectiveSettings(settings, playing) ==
    [settings EXCEPT !.timeScale = IF playing THEN settings.timeScale ELSE 0]

Effect(i, name) == [inst |-> i, effect |-> name]

\* the instance the card shows: <Canvas key={resetKey} ... />
Current == resetKey + 1

NoStep == [inst |-> 0]

Init ==
    /\ globalSettings = [gravityMultiplier |-> Num(1), timeScale |-> Num(1),
                         rotationMultiplier |-> Num(1),
                         bouncinessMultiplier |-> Num(1)]
    /\ isPlaying = TRUE
    /\ preset = Preset
    /\ resetKey = 0
    /\ clientSize = [w |-> Num(200), h |-> Num(200)]
    /\ canvasRef = [i \in Instances |-> i = 1]
    /\ requestRef = [i \in Instances |-> 0]
    /\ stateRef = [i \in Instances |-> EmptyState]
    /\ rendered = [i \in Instances |->
                     [config |-> preset,
                      globalSettings |-> effectiveSettings(globalSettings,
                                                           isPlaying)]]
    /\ passive = {Effect(1, "initialize"), Effect(1, "schedule")}
    /\ frames = {}
    /\ handle = 0
    /\ steps = 0
    /\ lastStep = NoStep
    /\ events = 0

\* A render of the App commits new props to the card's Canvas.  Every App
\* render builds effectiveSettings anew, so the scheduling effect is due
\* again (its cleanup first); the initialize effect is due when one of its
\* dependencies changed.  React runs the passive effects of a commit later,
\* and before it renders again.
AppRender(settings, playing, config) ==
    /\ passive = {}
    /\ events < MaxEvents
    /\ events' = events + 1
    /\ globalSettings' = settings
    /\ isPlaying' = playing
    /\ preset' = config
    /\ rendered' = [rendered EXCEPT ![Current] =
                      [config |-> config,
                       globalSettings |-> effectiveSettings(settings, playing)]]
    /\ passive' = {Effect(Current, "cancel"), Effect(Current, "schedule")}
                  \cup IF InitDeps(config) # InitDeps(rendered[Current].config)
                       THEN {Effect(Current, "initialize")}
                       ELSE {}
    /\ UNCHANGED <<resetKey, clientSize, canvasRef, requestRef, stateRef,
                   frames, handle, steps, lastStep>>

\* the onChange handlers of the three sliders
SetGlobalSettings ==
    \E u \in SettingInputs :
        AppRender(Patch(globalSettings, u), isPlaying, preset)

\* a toggle that also puts the speed slider back to 1
togglePlayResetsSpeed ==
    AppRender([globalSettings EXCEPT !.timeScale = Num(1)], ~isPlaying, preset)

\* const togglePlay = () => setIsPlaying(!isPlaying)
togglePlay == AppRender(globalSettings, ~isPlaying, preset)

\* the card is given another config: one field of the preset changes
SetConfig ==
    \E u \in ConfigInputs :
        /\ Patch(preset, u) # preset
        /\ AppRender(globalSettings, isPlaying, Patch(preset, u))

\* Force Re-build: setResetKey(k => k + 1).  The card renders again, the
\* Canvas of the old key is unmounted (its ref is detached in the commit,
\* its effect cleanup runs with the passive effects) and a Canvas of the
\* new key is mounted with the card's props.
ForceRebuild ==
    /\ passive = {}
    /\ events < MaxEvents
    /\ Current < MaxInstances
    /\ events' = events + 1
    /\ resetKey' = resetKey + 1
    /\ canvasRef' = [canvasRef EXCEPT ![Current] = FALSE, ![Current + 1] = TRUE]
    /\ rendered' = [rendered EXCEPT ![Current + 1] = rendered[Current]]
    /\ stateRef' = [stateRef EXCEPT ![Current + 1] = EmptyState]
    /\ requestRef' = [requestRef EXCEPT ![Current + 1] = 0]
    /\ passive' = {Effect(Current, "cancel"),
                   Effect(Current + 1, "initialize"),
                   Effect(Current + 1, "schedule")}
    /\ UNCHANGED <<globalSettings, isPlaying, preset, clientSize, frames,
                   handle, steps, lastStep>>

\* the layout gives the canvas element another size
Resize ==
    \E size \in Sizes :
        /\ size # clientSize
        /\ events < MaxEvents
        /\ events' = events + 1
        /\ clientSize' = size
        /\ UNCHANGED <<globalSettings, isPlaying, preset, resetKey, canvasRef,
                       requestRef, stateRef, rendered, passive, frames,
                       handle, steps, lastStep>>

\* requestAnimationFrame(tick) by the render whose props are in rendered[i]:
\* the callback is that render's tick, with that render's props
Callback(h, i) ==
    [handle |-> h, inst |-> i, config |-> rendered[i].config,
     globalSettings |-> rendered[i].globalSettings]

\* a cleanup that cancels nothing
AfterCancelNothing(cancelled) == frames

\* if (requestRef.current) cancelAnimationFrame(requestRef.current), for
\* the instances whose cleanup runs
AfterCancel(cancelled) ==
    {f \in frames :
        \A i \in cancelled : requestRef[i] = 0 \/ f.handle # requestRef[i]}

\* React runs the pending passive effects: the cleanups, then the
\* initialize effect and the scheduling effect of the committed render
RunPassiveEffects ==
    /\ passive # {}
    /\ LET cancelled == {e.inst : e \in {x \in passive : x.effect = "cancel"}}
           inits == {e.inst : e \in {x \in passive : x.effect = "initialize"}}
           scheds == {e.inst : e \in {x \in passive : x.effect = "schedule"}}
       IN  /\ \E seed \in Seeds :
                stateRef' = [i \in Instances |->
                               IF i \in inits
                               THEN InitialState(rendered[i].config, seed)
                               ELSE stateRef[i]]
           /\ handle' = handle + Cardinality(scheds)
           /\ requestRef' = [i \in Instances |->
                               IF i \in scheds THEN handle + 1
                               ELSE requestRef[i]]
           /\ frames' = AfterCancel(cancelled)
                        \cup {Callback(handle + 1, i) : i \in scheds}
    /\ passive' = {}
    /\ UNCHANGED <<globalSettings, isPlaying, preset, resetKey, clientSize,
                   canvasRef, rendered, steps, lastStep, events>>

\* a tick that does not look at the canvas ref
canvasUnchecked(i) == TRUE

\* const canvas = canvasRef.current, as a truth value
canvas(i) == canvasRef[i]

\* const ctx = canvas.getContext('2d'): a context (TRUE) or null (FALSE)
Contexts == BOOLEAN

\* The browser runs a frame callback: tick of the render that requested
\* it.  Without a canvas element or without a 2D context it returns;
\* otherwise the canvas takes its layout size, updatePhysics runs on
\* stateRef.current with the props of that render, and tick requests the
\* next frame.
tick(f, ctx) ==
    /\ f \in frames
    /\ \/ /\ ~canvas(f.inst) \/ ~ctx
          /\ frames' = frames \ {f}
          /\ UNCHANGED <<requestRef, stateRef, handle, steps, lastStep>>
       \/ /\ canvas(f.inst)
          /\ ctx
          /\ steps < MaxSteps
          /\ steps' = steps + 1
          /\ stateRef' = [stateRef EXCEPT ![f.inst] =
                            updatePhysics(stateRef[f.inst], f.config,
                                          f.globalSettings, clientSize)]
          /\ handle' = handle + 1
          /\ requestRef' = [requestRef EXCEPT ![f.inst] = handle + 1]
          /\ frames' = (frames \ {f}) \cup {[f EXCEPT !.handle = handle + 1]}
          /\ lastStep' = [inst |-> f.inst, config |-> f.config,
                          globalSettings |-> f.globalSettings,
                          supplied |-> rendered[f.inst],
                          before |-> stateRef[f.inst],
                          after |-> stateRef'[f.inst], size |-> clientSize]
    /\ UNCHANGED <<globalSettings, isPlaying, preset, resetKey, clientSize,
                   canvasRef, rendered, passive, events>>

Frame == \E f \in frames : \E ctx \in Contexts : tick(f, ctx)

Next ==
    \/ SetGlobalSettings
    \/ togglePlay
    \/ SetConfig
    \/ ForceRebuild
    \/ Resize
    \/ RunPassiveEffects
    \/ Frame

Spec == Init /\ [][Next]_vars

\* ------------------------------------------------------------- claims
\* C1: once a mounted Canvas has run its initialize effect, its particle
\* list has exactly max(0, floor(config.ballCount)) entries in every
\* reachable state: no tick (boundary phase, pair phase, runaway recovery)
\* adds or removes a particle.
C1_ParticleCountFixed ==
    \A i \in Instances :
        (canvasRef[i] /\ Effect(i, "initialize") \notin passive)
        => LET n == rendered[i].config.ballCount \div Scale
           IN  Len(stateRef[i].balls) = IF n > 0 THEN n ELSE 0

\* a step has run on the one particle of a Canvas whose config asks for 1.5
C1_Witness ==
    /\ lastStep.inst # 0
    /\ lastStep.supplied.config.ballCount = 1500
    /\ Len(lastStep.before.balls) = 1
    /\ Len(stateRef[lastStep.inst].balls) = 1

\* C2: for a Canvas that stays mounted, a change of config that leaves
\* particle count, initial speed, particle radius and id as they were (a
\* change of gravity, friction, restitution, shape kind or rotation speed
\* alone) leaves the particle list and the rotation accumulator unchanged
\* and makes no initialize effect due; an initialize effect becomes due only
\* when one of those four changed; and apart from a simulation step the
\* state is replaced only by a due initialize effect.
C2_ReinitOnlyOnIdentityChange ==
    [][\A i \in Instances :
         LET old == rendered[i].config
             new == rendered'[i].config
             same == <<old.ballCount, old.initialSpeed, old.ballSize, old.id>>
                     = <<new.ballCount, new.initialSpeed, new.ballSize, new.id>>
             due == Effect(i, "initialize")
         IN  (canvasRef[i] /\ canvasRef'[i])
             => /\ (new # old /\ same)
                   => (stateRef'[i] = stateRef[i] /\ due \notin passive')
                /\ (due \in passive' /\ due \notin passive) => ~same
                /\ (stateRef'[i] # stateRef[i] /\ steps' = steps)
                   => due \in passive]_vars

\* gravity alone has just changed under a Canvas that has stepped, and its
\* two particles and its rotation are still there
C2_Witness ==
    /\ rendered[1].config = [Preset EXCEPT !.gravity = 0]
    /\ passive = {Effect(1, "cancel"), Effect(1, "schedule")}
    /\ steps > 0
    /\ stateRef[1].rotation # 0
    /\ Len(stateRef[1].balls) = 2

\* C4: an instance that has been replaced by a rebuild (every instance
\* before the current one) executes no further simulation step, however
\* the rebuild interleaves with pending frame callbacks, passive effects
\* and GlobalSettings changes.
C4_NoStepAfterStop ==
    [][\A i \in Instances :
         i < Current
         => (stateRef'[i] = stateRef[i]
             /\ ~(steps' # steps /\ lastStep'.inst = i))]_vars

\* the frame callback of a replaced instance has run (and returned) before
\* the cleanup of its scheduling effect
C4_Witness ==
    /\ resetKey = 1
    /\ Effect(1, "cancel") \in passive
    /\ requestRef[1] # 0
    /\ ~\E f \in frames : f.inst = 1

\* C5: every executed step computes with the GlobalSettings and the live
\* config fields (gravity, friction, restitution, shape, rotation speed)
\* most recently supplied to its instance.
C5_StepReadsLatest ==
    lastStep.inst # 0
    => /\ lastStep.globalSettings = lastStep.supplied.globalSettings
       /\ LET used == lastStep.config
              latest == lastStep.supplied.config
          IN  <<used.gravity, used.friction, used.restitution,
                used.shapeType, used.rotationSpeed>>
              = <<latest.gravity, latest.friction, latest.restitution,
                  latest.shapeType, latest.rotationSpeed>>

\* ------------------------------------------------------ the tick alone
\* The simulation step over bounded sets of starting states, configs and
\* settings: a mounted Canvas whose effects have run and whose frame
\* callback is pending, stepped by the browser's frames.
StartPositions == {Vec(0, 0), Vec(Num(40), Num(45)), Vec(0, -Num(300))}
StartVelocities == {Vec(0, 0), Vec(0, Num(20)), Vec(Num(3), -Num(4))}
StartBall(config, i, pos, vel) ==
    [id |-> <<config.id, i>>, pos |-> pos, vel |-> vel,
     radius |-> config.ballSize, color |-> i % PaletteSize]

\* one ball anywhere, and possibly a second one that rests near the origin
StartStates(config) ==
    {[balls |-> <<StartBall(config, 0, pos, vel)>> \o rest, rotation |-> 0] :
        pos \in StartPositions, vel \in StartVelocities,
        rest \in {<<>>, <<StartBall(config, 1, Vec(Num(5), 0), Vec(0, 0))>>}}

StepConfigs ==
    {[Preset EXCEPT !.gravity = g, !.friction = fr] :
        g \in {300, MaxFinite}, fr \in {1, 500}}
StepSettings ==
    [gravityMultiplier : {Num(1), Num(3)}, timeScale : {Num(1), Num(3)},
     rotationMultiplier : {Num(1)}, bouncinessMultiplier : {Num(1)}]

StepInit ==
    /\ globalSettings \in StepSettings
    /\ isPlaying \in BOOLEAN
    /\ preset \in StepConfigs
    /\ resetKey = 0
    /\ clientSize \in Sizes
    /\ canvasRef = [i \in Instances |-> i = 1]
    /\ requestRef = [i \in Instances |-> IF i = 1 THEN 1 ELSE 0]
    /\ stateRef \in {[i \in Instances |-> IF i = 1 THEN s ELSE EmptyState] :
                        s \in StartStates(preset)}
    /\ rendered = [i \in Instances |->
                     [config |-> preset,
                      globalSettings |-> effectiveSettings(globalSettings,
                                                           isPlaying)]]
    /\ passive = {}
    /\ frames = {Callback(1, 1)}
    /\ handle = 1
    /\ steps = 0
    /\ lastStep = NoStep
    /\ events = 0

StepNext == Frame

StepSpec == StepInit /\ [][StepNext]_vars

\* C3: a step with timeScale = 0 leaves the rotation accumulator and every
\* particle's position and velocity as they were, whatever the starting
\* state (a particle inside an edge's reach or overlapping another included).
C3_PausedStepFreezes ==
    (lastStep.inst # 0 /\ lastStep.globalSettings.timeScale = 0)
    => lastStep.after = lastStep.before

\* C6: at the end of every step each particle is within boundary radius +
\* margin of the origin.
C6_WithinRunawayBound ==
    lastStep.inst # 0
    => \A k \in DOMAIN lastStep.after.balls :
          LET distance == mag(lastStep.after.balls[k].pos)
          IN  /\ ~IsNaN(distance)
              /\ distance <= FAdd(ShapeRadius(lastStep.size), SafetyMargin)

\* C7: a particle that starts a step beyond boundary radius + margin is at
\* the origin with zero velocity after that step, whatever its velocity was.
C7_RunawayResetInOneStep ==
    lastStep.inst # 0
    => \A k \in DOMAIN lastStep.before.balls :
          FGt(mag(lastStep.before.balls[k].pos),
              FAdd(ShapeRadius(lastStep.size), SafetyMargin))
          => /\ lastStep.after.balls[k].pos = Origin
             /\ lastStep.after.balls[k].vel = Origin

\* C8: no step leaves a particle with a non-finite position or velocity
\* component.
C8_FiniteAfterStep ==
    lastStep.inst # 0
    => \A k \in DOMAIN lastStep.after.balls :
          LET ball == lastStep.after.balls[k]
          IN  /\ IsFinite(ball.pos.x) /\ IsFinite(ball.pos.y)
              /\ IsFinite(ball.vel.x) /\ IsFinite(ball.vel.y)

\* C9: the factor the friction step multiplies into the velocities is in
\* [0, 1] for every friction and timeScale.
C9_FrictionFactorClamped ==
    lastStep.inst # 0
    => LET factor == FrictionFactor(lastStep.config, lastStep.globalSettings)
       IN  0 <= factor /\ factor <= Num(1)

\* C10: the closest-point computation of a step divides by no zero and
\* returns a finite distance and normal: stated for the first edge of the
\* boundary loop and each particle as the step has just moved it to a
\* finite point p.
C10_SegmentDefined ==
    lastStep.inst # 0
    => \A k \in DOMAIN lastStep.before.balls :
          LET localVertices == LocalVertices(lastStep.before.rotation,
                                             lastStep.config,
                                             lastStep.globalSettings,
                                             lastStep.size)
              ab == sub(localVertices[2], localVertices[1])
              p == Integrate(lastStep.before.balls[k], lastStep.config,
                             lastStep.globalSettings).pos
              hit == distPointToSegment(p, localVertices[1], localVertices[2])
          IN  (IsFinite(p.x) /\ IsFinite(p.y))
              => /\ dot(ab, ab) # 0
                 /\ IsFinite(hit.dist)
                 /\ IsFinite(hit.normal.x) /\ IsFinite(hit.normal.y)

\* ------------------------------------------------- the boundary loop
\* The tick over every shape kind and a range of vertexCount values: the
\* config is handed to generateShape as it is.
ShapeKinds == BasicPolygons \cup {"star"} \cup CustomShapes \cup {"circle"}
VertexCounts == {0, Num(2), Num(3), Num(5), -Num(1)}
ShapeConfigs ==
    {[Preset EXCEPT !.shapeType = t, !.vertexCount = n, !.ballCount = Num(1)] :
        t \in ShapeKinds, n \in VertexCounts}

ShapeInit ==
    /\ globalSettings = [gravityMultiplier |-> Num(1), timeScale |-> Num(1),
                         rotationMultiplier |-> Num(1),
                         bouncinessMultiplier |-> Num(1)]
    /\ isPlaying \in BOOLEAN
    /\ preset \in ShapeConfigs
    /\ resetKey = 0
    /\ clientSize = [w |-> Num(200), h |-> Num(200)]
    /\ canvasRef = [i \in Instances |-> i = 1]
    /\ requestRef = [i \in Instances |-> IF i = 1 THEN 1 ELSE 0]
    /\ stateRef = [i \in Instances |->
                     IF i = 1
                     THEN [balls |-> <<StartBall(preset, 0, Origin,
                                                 Vec(0, Num(20)))>>,
                           rotation |-> 0]
                     ELSE EmptyState]
    /\ rendered = [i \in Instances |->
                     [config |-> preset,
                      globalSettings |-> effectiveSettings(globalSettings,
                                                           isPlaying)]]
    /\ passive = {}
    /\ frames = {Callback(1, 1)}
    /\ handle = 1
    /\ steps = 0
    /\ lastStep = NoStep
    /\ events = 0

ShapeNext == Frame

ShapeSpec == ShapeInit /\ [][ShapeNext]_vars

\* C11: the boundary loop a tick generates has at least 3 vertices, for
\* every shape kind and every vertexCount the config carries.
C11_LoopHasThreeVertices ==
    lastStep.inst # 0
    => Len(LocalVertices(lastStep.before.rotation, lastStep.config,
                         lastStep.globalSettings, lastStep.size)) >= 3

\* C12: the number of vertices of the loop depends on the kind: a convex
\* polygon kind gives vertexCount vertices (4 when vertexCount is 0), star
\* gives 2 * vertexCount (10 when 0), a named silhouette gives its authored
\* points in their order whatever vertexCount is (each scaled by the radius
\* when the loop is not turned), and any other kind gives 4 vertices.
\* Stated for the vertexCount values that are counts (whole and not
\* negative).
C12_VertexCountByKind ==
    lastStep.inst # 0
    => LET config == lastStep.config
           n == config.vertexCount
           type == config.shapeType
           turned == AdvanceRotation(lastStep.before.rotation, config,
                                     lastStep.globalSettings)
           loop == LocalVertices(lastStep.before.rotation, config,
                                 lastStep.globalSettings, lastStep.size)
       IN  (n >= 0 /\ n % Scale = 0)
           => /\ type \in BasicPolygons
                 => Len(loop) = IF n = 0 THEN 4 ELSE n \div Scale
              /\ type = "star"
                 => Len(loop) = IF n = 0 THEN 10 ELSE 2 * (n \div Scale)
              /\ type \in CustomShapes
                 => /\ Len(loop) = Len(normalizedPoints(type))
                    /\ turned = 0
                       => \A k \in DOMAIN loop :
                             loop[k] = mult(normalizedPoints(type)[k],
                                            ShapeRadius(lastStep.size))
              /\ type \notin BasicPolygons \cup {"star"} \cup CustomShapes
                 => Len(loop) = 4

\* two steps have run inside a star whose config asks for 5 points
C12_Witness ==
    /\ lastStep.inst # 0
    /\ lastStep.config.vertexCount = Num(5)
    /\ lastStep.config.shapeType = "star"
    /\ steps = 2

\* ------------------------------------------------- the collision phases
\* The tick inside the house silhouette (one flat floor edge, one flat wall
\* edge) over chosen starting states: one ball near an edge or free, two
\* balls that overlap, coincide or are apart, and such a pair with a third
\* ball aside.
CollidePositions == {Vec(0, Num(84)), Vec(Num(65), Num(20)), Origin}
CollideVelocities == {Vec(0, Num(5)), Vec(0, -Num(5)), Vec(Num(4), 0), Origin}
PairPositions ==
    {<<Vec(-Num(4), 0), Vec(Num(4), 0)>>, <<Origin, Origin>>,
     <<Vec(-Num(3), -Num(4)), Vec(Num(3), Num(4))>>,
     <<Vec(-Num(30), 0), Vec(Num(30), 0)>>}
PairVelocities ==
    {<<Vec(Num(5), 0), Vec(-Num(5), 0)>>,
     <<Vec(Num(6), Num(8)), Vec(-Num(6), -Num(8))>>,
     <<Vec(-Num(5), 0), Vec(Num(5), 0)>>, <<Origin, Origin>>,
     <<Vec(Num(5), 0), Vec(Num(1), 0)>>}

CollideBalls(config) ==
    IF config.ballCount = Num(1)
    THEN {<<StartBall(config, 0, pos, vel)>> :
             pos \in CollidePositions, vel \in CollideVelocities}
    ELSE IF config.ballCount = Num(2)
    THEN {<<StartBall(config, 0, pos[1], vel[1]),
            StartBall(config, 1, pos[2], vel[2])>> :
             pos \in PairPositions, vel \in PairVelocities}
    ELSE {<<StartBall(config, 0, Vec(-Num(4), 0), vel[1]),
            StartBall(config, 1, Vec(Num(4), 0), vel[2]),
            StartBall(config, 2, Vec(0, Num(40)), Vec(Num(1), Num(1)))>> :
             vel \in PairVelocities}

CollideConfigs ==
    {[Preset EXCEPT !.shapeType = "house", !.gravity = g, !.restitution = r,
                    !.ballCount = Num(n)] :
        g \in {0, 300}, r \in {800, Num(1)}, n \in 1..3}
\* the rotation slider at 0: the loop keeps its authored axes
CollideSettings ==
    [gravityMultiplier : {Num(1)}, timeScale : {Num(1)},
     rotationMultiplier : {0}, bouncinessMultiplier : {Num(1), 1500}]

CollideInit ==
    /\ globalSettings \in CollideSettings
    /\ isPlaying \in BOOLEAN
    /\ preset \in CollideConfigs
    /\ resetKey = 0
    /\ clientSize = [w |-> Num(200), h |-> Num(200)]
    /\ canvasRef = [i \in Instances |-> i = 1]
    /\ requestRef = [i \in Instances |-> IF i = 1 THEN 1 ELSE 0]
    /\ stateRef \in {[i \in Instances |->
                        IF i = 1 THEN [balls |-> b, rotation |-> 0]
                        ELSE EmptyState] : b \in CollideBalls(preset)}
    /\ rendered = [i \in Instances |->
                     [config |-> preset,
                      globalSettings |-> effectiveSettings(globalSettings,
                                                           isPlaying)]]
    /\ passive = {}
    /\ frames = {Callback(1, 1)}
    /\ handle = 1
    /\ steps = 0
    /\ lastStep = NoStep
    /\ events = 0

CollideNext == Frame

CollideSpec == CollideInit /\ [][CollideNext]_vars

\* C13: a ball that is within its radius of an edge by the depth k and
\* moves straight against the edge's normal at the speed s leaves the
\* resolution against that edge displaced by k along the normal, with the
\* velocity (s * restitution + 0.1) along the normal, where restitution is
\* config.restitution * bouncinessMultiplier. Stated for every ball of a
\* step as the integration left it and every edge of the step's loop.
C13_BoundaryBounce ==
    lastStep.inst # 0
    => \A vertices \in {LocalVertices(lastStep.before.rotation, lastStep.config,
                                      lastStep.globalSettings, lastStep.size)} :
       \A restitution \in {FMul(lastStep.config.restitution,
                                lastStep.globalSettings.bouncinessMultiplier)} :
       \A b \in DOMAIN lastStep.before.balls :
       \A ball \in {Integrate(lastStep.before.balls[b], lastStep.config,
                              lastStep.globalSettings)} :
       \A e \in DOMAIN vertices :
       \A p2 \in {vertices[(e % Len(vertices)) + 1]} :
       \A hit \in {distPointToSegment(ball.pos, vertices[e], p2)} :
       \A s \in {FNeg(dot(ball.vel, hit.normal))} :
       \A out \in {WallCollide(ball, vertices[e], p2, restitution)} :
           (FLt(hit.dist, ball.radius) /\ FGt(s, 0)
            /\ ball.vel = mult(hit.normal, FNeg(s)))
           => /\ out.pos = add(ball.pos,
                               mult(hit.normal, FSub(ball.radius, hit.dist)))
              /\ out.vel = mult(hit.normal,
                                FAdd(FMul(s, restitution), NudgeSpeed))

\* a paused step has bounced the ball that was 6 above the floor and moving
\* down at 5 with restitution 0.8 * 1.5: it is 10 above the floor and moves
\* up at 5 * 1.2 + 0.1
C13_Witness ==
    /\ lastStep.inst # 0
    /\ lastStep.globalSettings.timeScale = 0
    /\ lastStep.globalSettings.bouncinessMultiplier = 1500
    /\ lastStep.config.restitution = 800
    /\ Len(lastStep.before.balls) = 1
    /\ lastStep.before.balls[1].pos = Vec(0, Num(84))
    /\ lastStep.before.balls[1].vel = Vec(0, Num(5))
    /\ lastStep.after.balls[1].pos = Vec(0, Num(80))
    /\ lastStep.after.balls[1].vel = Vec(0, -6100)

\* C17: a ball that is within its radius of an edge and whose velocity has a
\* component >= 0 along the edge's normal leaves the resolution against that
\* edge pushed out by the penetration along the normal, with the velocity it
\* had. Stated for every ball of a step as the integration left it and every
\* edge of the step's loop.
C17_NoReflectionWhenLeaving ==
    lastStep.inst # 0
    => \A vertices \in {LocalVertices(lastStep.before.rotation, lastStep.config,
                                      lastStep.globalSettings, lastStep.size)} :
       \A restitution \in {FMul(lastStep.config.restitution,
                                lastStep.globalSettings.bouncinessMultiplier)} :
       \A b \in DOMAIN lastStep.before.balls :
       \A ball \in {Integrate(lastStep.before.balls[b], lastStep.config,
                              lastStep.globalSettings)} :
       \A e \in DOMAIN vertices :
       \A p2 \in {vertices[(e % Len(vertices)) + 1]} :
       \A hit \in {distPointToSegment(ball.pos, vertices[e], p2)} :
       \A out \in {WallCollide(ball, vertices[e], p2, restitution)} :
           (FLt(hit.dist, ball.radius) /\ dot(ball.vel, hit.normal) >= 0
            /\ IsFinite(dot(ball.vel, hit.normal)))
           => /\ out.pos = add(ball.pos,
                               mult(hit.normal, FSub(ball.radius, hit.dist)))
              /\ out.vel = ball.vel

\* a paused step has pushed out the ball that was 6 above the floor and
\* moving up at 5: it is 10 above the floor and still moves up at 5
C17_Witness ==
    /\ lastStep.inst # 0
    /\ lastStep.globalSettings.timeScale = 0
    /\ Len(lastStep.before.balls) = 1
    /\ lastStep.before.balls[1].pos = Vec(0, Num(84))
    /\ lastStep.before.balls[1].vel = Vec(0, -Num(5))
    /\ lastStep.after.balls[1].pos = Vec(0, Num(80))
    /\ lastStep.after.balls[1].vel = Vec(0, -Num(5))

\* C14: two overlapping balls of equal radius that approach head-on (each
\* moving along the line of centres towards the other) with equal and
\* opposite velocities leave the resolution of their pair with each other's
\* velocity. Stated for every pair of a step as the boundary phase left it.
C14_HeadOnExchange ==
    lastStep.inst # 0
    => \A moved \in {AfterWalls(lastStep.before, lastStep.config,
                                lastStep.globalSettings, lastStep.size)} :
       \A i \in DOMAIN moved : \A j \in DOMAIN moved :
       i < j
       => \A distVec \in {sub(moved[j].pos, moved[i].pos)} :
          \A towards \in {normalize(distVec)} :
          \A s \in {dot(moved[i].vel, towards)} :
          \A out \in {PairCollide(moved, i, j)} :
              (/\ moved[i].radius = moved[j].radius
               /\ FLt(mag(distVec), FAdd(moved[i].radius, moved[j].radius))
               /\ FGt(s, 0)
               /\ moved[i].vel = mult(towards, s)
               /\ moved[j].vel = mult(towards, FNeg(s)))
              => /\ out[i].vel = moved[j].vel
                 /\ out[j].vel = moved[i].vel

\* a paused step has resolved the pair at (-3,-4) and (3,4) that approached
\* at (6,8) and (-6,-8): each ball has the velocity the other had
C14_Witness ==
    /\ lastStep.inst # 0
    /\ lastStep.globalSettings.timeScale = 0
    /\ Len(lastStep.before.balls) = 2
    /\ lastStep.before.balls[1].pos = Vec(-Num(3), -Num(4))
    /\ lastStep.before.balls[1].vel = Vec(Num(6), Num(8))
    /\ lastStep.before.balls[2].vel = Vec(-Num(6), -Num(8))
    /\ lastStep.after.balls[1].vel = Vec(-Num(6), -Num(8))
    /\ lastStep.after.balls[2].vel = Vec(Num(6), Num(8))

\* The model's numbers are cut off at 1 / Scale, so a unit normal is short
\* of length 1 by up to 0.0015 and the corrected distance of a pair (at most
\* one diameter of correction) falls short by up to 0.03.
DistanceTolerance == 30

\* C20: the resolution of one overlapping pair (i, j) keeps the sum of the
\* two positions and the sum of the two velocities, changes no other ball,
\* and leaves the two centres rA + rB apart (to DistanceTolerance); when the
\* centres coincide the balls are parted along (1, 0), exactly rA + rB apart. Stated for every pair of a step as the
\* boundary phase left it.
C20_PairResolutionConserves ==
    lastStep.inst # 0
    => \A moved \in {AfterWalls(lastStep.before, lastStep.config,
                                lastStep.globalSettings, lastStep.size)} :
       \A i \in DOMAIN moved : \A j \in DOMAIN moved :
       i < j
       => \A distance \in {mag(sub(moved[j].pos, moved[i].pos))} :
          \A totalRadius \in {FAdd(moved[i].radius, moved[j].radius)} :
          \A out \in {PairCollide(moved, i, j)} :
          \A apart \in {sub(out[j].pos, out[i].pos)} :
              FLt(distance, totalRadius)
              => /\ add(out[i].pos, out[j].pos)
                    = add(moved[i].pos, moved[j].pos)
                 /\ add(out[i].vel, out[j].vel)
                    = add(moved[i].vel, moved[j].vel)
                 /\ \A k \in DOMAIN moved \ {i, j} : out[k] = moved[k]
                 /\ Abs(FSub(mag(apart), totalRadius)) <= DistanceTolerance
                 /\ FEq(distance, 0) => apart = Vec(totalRadius, 0)

\* a paused step has resolved two balls that coincided at the origin with
\* the velocities (5,0) and (1,0): they are at (-10,0) and (10,0) and have
\* exchanged their velocities
C20_Witness ==
    /\ lastStep.inst # 0
    /\ lastStep.globalSettings.timeScale = 0
    /\ Len(lastStep.before.balls) = 2
    /\ lastStep.before.balls[1].pos = Origin
    /\ lastStep.before.balls[2].pos = Origin
    /\ lastStep.before.balls[1].vel = Vec(Num(5), 0)
    /\ lastStep.before.balls[2].vel = Vec(Num(1), 0)
    /\ lastStep.after.balls[1].pos = Vec(-Num(10), 0)
    /\ lastStep.after.balls[2].pos = Vec(Num(10), 0)
    /\ lastStep.after.balls[1].vel = Vec(Num(1), 0)
    /\ lastStep.after.balls[2].vel = Vec(Num(5), 0)

\* C15: once a mounted Canvas has run its initialize effect, every particle
\* has the radius config.ballSize, and that radius is greater than 0, in
\* every reachable state and for every config the card is given.
C15_RadiusPositive ==
    \A i \in Instances :
        (canvasRef[i] /\ Effect(i, "initialize") \notin passive)
        => \A k \in DOMAIN stateRef[i].balls :
              /\ stateRef[i].balls[k].radius = rendered[i].config.ballSize
              /\ stateRef[i].balls[k].radius > 0

\* C16: a frame callback of a mounted Canvas executes exactly one simulation
\* step and leaves exactly one callback of that Canvas pending, so the loop
\* does not stop by itself.
C16_OneStepPerCallback ==
    [][\A f \in frames :
         (f \notin frames' /\ passive' = passive /\ canvasRef[f.inst])
         => /\ steps' = steps + 1
            /\ lastStep'.inst = f.inst
            /\ Cardinality({g \in frames' : g.inst = f.inst}) = 1]_vars

\* C19: a Canvas instance has at most one pending animation-frame request
\* in every reachable state, however frame callbacks, changes of the
\* settings or the config (cleanup and re-arm), reinitializations and
\* rebuilds interleave.
C19_OnePendingRequest ==
    \A i \in Instances : Cardinality({f \in frames : f.inst = i}) <= 1

\* after a step, the gravity slider was moved and the passive effects have
\* run: the old request is cancelled and the one pending callback is the
\* new render's
C19_Witness ==
    /\ steps > 0
    /\ events = 1
    /\ passive = {}
    /\ globalSettings.gravityMultiplier = Num(3)
    /\ \E f \in frames :
          /\ f.inst = 1
          /\ f.globalSettings.gravityMultiplier = Num(3)
          /\ f.handle = requestRef[1]
          /\ f.handle > 2

\* --------------------------------------------------- pause and resume
\* The card from a playing or a paused App, with the speed slider at 1 or
\* at 3, under togglePlay, the passive effects and the frames.
PauseInit ==
    /\ globalSettings \in [gravityMultiplier : {Num(1)},
                           timeScale : {Num(1), Num(3)},
                           rotationMultiplier : {Num(1)},
                           bouncinessMultiplier : {Num(1)}]
    /\ isPlaying \in BOOLEAN
    /\ preset = Preset
    /\ resetKey = 0
    /\ clientSize = [w |-> Num(200), h |-> Num(200)]
    /\ canvasRef = [i \in Instances |-> i = 1]
    /\ requestRef = [i \in Instances |-> 0]
    /\ stateRef = [i \in Instances |-> EmptyState]
    /\ rendered = [i \in Instances |->
                     [config |-> preset,
                      globalSettings |-> effectiveSettings(globalSettings,
                                                           isPlaying)]]
    /\ passive = {Effect(1, "initialize"), Effect(1, "schedule")}
    /\ frames = {}
    /\ handle = 0
    /\ steps = 0
    /\ lastStep = NoStep
    /\ events = 0

PauseNext == togglePlay \/ RunPassiveEffects \/ Frame

PauseSpec == PauseInit /\ [][PauseNext]_vars

\* C18: togglePlay leaves the stored GlobalSettings (timeScale included) and
\* the pending frame callbacks as they are; the settings the Canvas is given
\* are the stored ones with timeScale 0 while paused and the stored
\* timeScale while playing, so resuming restores exactly the stored value;
\* and the passive effects of every commit, paused or not, leave a callback
\* of the card's Canvas pending that carries those settings.
C18_PauseKeepsSpeedAndLoop ==
    [][/\ isPlaying' # isPlaying
          => (globalSettings' = globalSettings /\ frames' = frames)
       /\ rendered'[resetKey' + 1].globalSettings
          = [globalSettings' EXCEPT
               !.timeScale = IF isPlaying' THEN globalSettings'.timeScale
                             ELSE 0]
       /\ (passive # {} /\ passive' = {})
          => \E f \in frames' :
                /\ f.inst = resetKey' + 1
                /\ f.globalSettings = rendered'[resetKey' + 1].globalSettings
      ]_vars

\* a paused step (it left the rotation at 0) was followed by a resume, and
\* the next step ran with the stored timeScale 3
C18_Witness ==
    /\ steps = 2
    /\ events = 1
    /\ isPlaying
    /\ globalSettings.timeScale = Num(3)
    /\ lastStep.before.rotation = 0
    /\ lastStep.globalSettings.timeScale = Num(3)
    /\ lastStep.after.rotation > 0
====
